---------------------------- MODULE Spec2Model ----------------------------
(***************************************************************************)
(* A model of julian_day_converter (src/src/lib.rs): conversions between   *)
(* Unix timestamps, Julian Days (f64) and chrono::NaiveDateTime, the       *)
(* weekday index and the fuzzy ISO-8601 parser.                            *)
(*                                                                         *)
(* The library is a set of pure functions.  Each function is an operator   *)
(* that computes what the Rust code computes: f64 arithmetic is IEEE-754   *)
(* binary64 with round-to-nearest-even, carried out on arbitrary-size      *)
(* naturals (TLC's integers are 32 bits wide, an f64 significand is 53),   *)
(* `as i64` / `as u64` are Rust's saturating truncating casts, and strings *)
(* are sequences of one-character strings.                                 *)
(***************************************************************************)
EXTENDS Integers, Sequences, FiniteSets, TLC

(***************************************************************************)
(* Arbitrary-size naturals: little-endian sequences of 15-bit limbs with   *)
(* no leading (most significant) zero limb; zero is the empty sequence.    *)
(***************************************************************************)
Limb == 2^15

RECURSIVE BNorm(_)
BNorm(a) ==
  IF a = <<>> THEN <<>>
  ELSE IF a[Len(a)] = 0 THEN BNorm(SubSeq(a, 1, Len(a) - 1))
  ELSE a

RECURSIVE BFromNat(_)
BFromNat(n) ==
  IF n = 0 THEN <<>> ELSE <<n % Limb>> \o BFromNat(n \div Limb)

RECURSIVE BAddC(_, _, _)
BAddC(a, b, c) ==
  IF a = <<>> /\ b = <<>> THEN (IF c = 0 THEN <<>> ELSE <<c>>)
  ELSE LET x == IF a = <<>> THEN 0 ELSE Head(a)
           y == IF b = <<>> THEN 0 ELSE Head(b)
           t == x + y + c
       IN  <<t % Limb>> \o
           BAddC(IF a = <<>> THEN <<>> ELSE Tail(a),
                 IF b = <<>> THEN <<>> ELSE Tail(b), t \div Limb)

BAdd(a, b) == BAddC(a, b, 0)

\* a - b - c for a >= b + c
RECURSIVE BSubC(_, _, _)
BSubC(a, b, c) ==
  IF a = <<>> THEN <<>>
  ELSE LET y == IF b = <<>> THEN 0 ELSE Head(b)
           t == Head(a) - y - c
       IN  <<t % Limb>> \o
           BSubC(Tail(a), IF b = <<>> THEN <<>> ELSE Tail(b),
                 IF t < 0 THEN 1 ELSE 0)

BSub(a, b) == BNorm(BSubC(a, b, 0))

\* -1, 0, 1 as a < b, a = b, a > b (both normalised)
RECURSIVE BCmpAt(_, _, _)
BCmpAt(a, b, i) ==
  IF i = 0 THEN 0
  ELSE IF a[i] < b[i] THEN -1
  ELSE IF a[i] > b[i] THEN 1
  ELSE BCmpAt(a, b, i - 1)

BCmp(a, b) ==
  IF Len(a) < Len(b) THEN -1
  ELSE IF Len(a) > Len(b) THEN 1
  ELSE BCmpAt(a, b, Len(a))

\* a * k for 0 <= k <= Limb
RECURSIVE BMulSmallC(_, _, _)
BMulSmallC(a, k, c) ==
  IF a = <<>> THEN BFromNat(c)
  ELSE LET t == Head(a) * k + c
       IN  <<t % Limb>> \o BMulSmallC(Tail(a), k, t \div Limb)

BMulSmall(a, k) == BNorm(BMulSmallC(a, k, 0))

BShlLimbs(a, n) ==
  IF a = <<>> THEN <<>> ELSE [i \in 1..n |-> 0] \o a

RECURSIVE BMulAt(_, _, _)
BMulAt(a, b, i) ==
  IF i > Len(b) THEN <<>>
  ELSE BAdd(BShlLimbs(BMulSmall(a, b[i]), i - 1), BMulAt(a, b, i + 1))

BMul(a, b) == BNorm(BMulAt(a, b, 1))

\* <<a \div k, a % k>> for 1 <= k <= Limb; limbs are taken from the top
RECURSIVE BDivSmallAt(_, _, _, _)
BDivSmallAt(a, k, i, r) ==
  IF i = 0 THEN <<<<>>, r>>
  ELSE LET t    == r * Limb + a[i]
           rest == BDivSmallAt(a, k, i - 1, t % k)
       IN  <<rest[1] \o <<t \div k>>, rest[2]>>

BDivSmall(a, k) ==
  LET qr == BDivSmallAt(a, k, Len(a), 0)
  IN  <<BNorm(qr[1]), qr[2]>>

BShl(a, n) == BMulSmall(BShlLimbs(a, n \div 15), 2^(n % 15))

\* floor(a / 2^n)
BShr(a, n) ==
  LET k == n \div 15
  IN  IF k >= Len(a) THEN <<>>
      ELSE BDivSmall(SubSeq(a, k + 1, Len(a)), 2^(n % 15))[1]

RECURSIVE BitLenSmall(_)
BitLenSmall(n) == IF n = 0 THEN 0 ELSE 1 + BitLenSmall(n \div 2)

BBitLen(a) ==
  IF a = <<>> THEN 0 ELSE 15 * (Len(a) - 1) + BitLenSmall(a[Len(a)])

BIsOdd(a) == a # <<>> /\ a[1] % 2 = 1

(***************************************************************************)
(* IEEE-754 binary64.  A finite f64 is [neg, m, e] with value              *)
(* (-1)^neg * m * 2^e, where m is zero (then e = 0) or has exactly 53      *)
(* bits.  Every magnitude the library is applied to here lies far inside   *)
(* the normal range, so subnormals, infinities and NaN are not modelled.   *)
(***************************************************************************)
F64Zero == [neg |-> FALSE, m |-> <<>>, e |-> 0]

Min(x, y) == IF x < y THEN x ELSE y

Max0(x) == IF x > 0 THEN x ELSE 0

\* q * 2^e for a q of 53 bits, or of 54 after a carry out of the rounding
F64Pack(neg, q, e) ==
  IF BBitLen(q) > 53 THEN [neg |-> neg, m |-> BShr(q, 1), e |-> e + 1]
  ELSE [neg |-> neg, m |-> q, e |-> e]

\* round to nearest, ties to even: half is the dropped part against one half
\* of the last place kept (-1, 0, 1), sticky says more follows below it
F64RoundUp(q, half, sticky) ==
  half = 1 \/ (half = 0 /\ (sticky \/ BIsOdd(q)))

\* n cut to its top 53 bits q = floor(n / 2^s), rounded
F64RoundCut(neg, n, e, sticky, s, q) ==
  F64Pack(neg,
          IF F64RoundUp(q, BCmp(BSub(n, BShl(q, s)), BShl(<<1>>, s - 1)), sticky)
            THEN BAdd(q, <<1>>) ELSE q,
          e + s)

F64RoundLen(neg, n, e, sticky, len) ==
  IF len = 0 THEN F64Zero
  ELSE IF len <= 53
    THEN [neg |-> neg, m |-> BShl(n, 53 - len), e |-> e - (53 - len)]
  ELSE F64RoundCut(neg, n, e, sticky, len - 53, BShr(n, len - 53))

\* The f64 nearest to (-1)^neg * (n + r) * 2^e, ties to even, where
\* 0 < r < 1 when sticky and r = 0 otherwise (sticky needs BBitLen(n) > 53).
F64Round(neg, n, e, sticky) == F64RoundLen(neg, n, e, sticky, BBitLen(n))

F64RatioQr(neg, qr, e) == F64Round(neg, qr[1], e, qr[2] # 0)

F64RatioSh(neg, p, o, t, sh) ==
  F64RatioQr(neg, BDivSmall(BShl(p, sh), o), 0 - sh - t)

\* The f64 nearest to (-1)^neg * p / (o * 2^t), for a one-limb odd o: what
\* rustc makes of a decimal literal, and what a division by such a value is.
F64Ratio(neg, p, o, t) ==
  IF p = <<>> THEN F64Zero
  ELSE F64RatioSh(neg, p, o, t, Max0(70 - BBitLen(p)))

F64Neg(a) == IF a.m = <<>> THEN a ELSE [a EXCEPT !.neg = ~a.neg]

\* x * 2^emin and y * 2^emin with their signs, c being x against y
F64AddCmp(aneg, bneg, x, y, emin, c) ==
  IF aneg # bneg /\ c = 0 THEN F64Zero
  ELSE F64Round(IF aneg = bneg \/ c = 1 THEN aneg ELSE bneg,
                IF aneg = bneg THEN BAdd(x, y)
                ELSE IF c = 1 THEN BSub(x, y) ELSE BSub(y, x),
                emin, FALSE)

F64AddAligned(aneg, bneg, x, y, emin) ==
  F64AddCmp(aneg, bneg, x, y, emin, BCmp(x, y))

\* a + b
F64Add(a, b) ==
  IF a.m = <<>> THEN b
  ELSE IF b.m = <<>> THEN a
  ELSE F64AddAligned(a.neg, b.neg, BShl(a.m, a.e - Min(a.e, b.e)),
                     BShl(b.m, b.e - Min(a.e, b.e)), Min(a.e, b.e))

\* a - b
F64Sub(a, b) == F64Add(a, F64Neg(b))

\* a * b
F64Mul(a, b) ==
  IF a.m = <<>> \/ b.m = <<>> THEN F64Zero
  ELSE F64Round(a.neg # b.neg, BMul(a.m, b.m), a.e + b.e, FALSE)

\* the odd part of a significand and its power of two
RECURSIVE OddPart(_, _)
OddPart(n, t) ==
  IF n[1] % 2 = 1 THEN <<n, t>> ELSE OddPart(BShr(n, 1), t + 1)

F64Scale(q, k) == IF q.m = <<>> THEN q ELSE [q EXCEPT !.e = q.e + k]

F64DivOdd(a, b, ot) ==
  F64Scale(F64Ratio(a.neg # b.neg, a.m, ot[1][1], ot[2]), a.e - b.e)

\* a / b, for b whose significand's odd part fits one limb (86400 = 675 * 2^7)
F64Div(a, b) == F64DivOdd(a, b, OddPart(b.m, 0))

(***************************************************************************)
(* Rust integers.  An i64 / u64 value is [neg, mag] with mag a natural     *)
(* (neg only with mag # 0).                                                *)
(***************************************************************************)
IntZero == [neg |-> FALSE, mag |-> <<>>]

IntOf(n) ==
  IF n < 0 THEN [neg |-> TRUE, mag |-> BFromNat(0 - n)]
  ELSE [neg |-> FALSE, mag |-> BFromNat(n)]

\* i64 as f64 (rounds to nearest beyond 2^53)
I64AsF64(i) == F64Round(i.neg, i.mag, 0, FALSE)

\* the magnitude of an f64 with its fraction dropped
F64TruncMag(x) ==
  IF x.m = <<>> THEN <<>>
  ELSE IF x.e >= 0 THEN BShl(x.m, x.e)
  ELSE BShr(x.m, 0 - x.e)

\* a magnitude as an integer of the given width, saturating
SaturateMag(neg, mag, bits) ==
  IF mag = <<>> THEN IntZero
  ELSE IF BBitLen(mag) <= bits THEN [neg |-> neg, mag |-> mag]
  ELSE IF neg THEN [neg |-> TRUE, mag |-> BShl(<<1>>, bits)]
  ELSE [neg |-> FALSE, mag |-> BSub(BShl(<<1>>, bits), <<1>>)]

\* f64 as i64: toward zero, saturating at i64::MIN and i64::MAX
F64AsI64(x) == SaturateMag(x.neg, F64TruncMag(x), 63)

\* f64 as u64: toward zero, a negative value gives 0, saturating at u64::MAX
F64AsU64(x) ==
  IF x.neg THEN IntZero ELSE SaturateMag(FALSE, F64TruncMag(x), 64)

(***************************************************************************)
(* src/src/lib.rs: constants and the numeric conversions                   *)
(***************************************************************************)
\* a faulty variant: the epoch without its half day, 2440588.0
JULIAN_DAY_UNIX_EPOCH_DAYS_noon == F64Ratio(FALSE, BFromNat(2440588), 1, 0)

\* 2440587.5 = 4881175 / 2
JULIAN_DAY_UNIX_EPOCH_DAYS == F64Ratio(FALSE, BFromNat(4881175), 1, 1)

JULIAN_DAY_UNIX_EPOCH_WEEKDAY == 4

\* the literal 86_400f64 / 86400f64
SecsPerDayF64 == I64AsF64(IntOf(86400))

\* (ts as f64 / 86_400f64) + JULIAN_DAY_UNIX_EPOCH_DAYS
unixtime_to_julian_day(ts) ==
  F64Add(F64Div(I64AsF64(ts), SecsPerDayF64), JULIAN_DAY_UNIX_EPOCH_DAYS)

\* whether an f64 has a fractional part
F64HasFraction(x) ==
  x.m # <<>> /\ x.e < 0 /\ BShl(BShr(x.m, 0 - x.e), 0 - x.e) # x.m

\* floor of an f64 as an i64 (inside the i64 range)
F64FloorI64(x) ==
  IF x.neg /\ F64HasFraction(x)
    THEN [neg |-> TRUE, mag |-> BAdd(F64TruncMag(x), <<1>>)]
    ELSE F64AsI64(x)

\* a faulty variant: the product floored instead of cut toward zero
julian_day_to_unixtime_floor(jd) ==
  F64FloorI64(F64Mul(F64Sub(jd, JULIAN_DAY_UNIX_EPOCH_DAYS), SecsPerDayF64))

\* ((jd - JULIAN_DAY_UNIX_EPOCH_DAYS) * 86400f64) as i64
julian_day_to_unixtime(jd) ==
  F64AsI64(F64Mul(F64Sub(jd, JULIAN_DAY_UNIX_EPOCH_DAYS), SecsPerDayF64))

(***************************************************************************)
(* chrono::NaiveDateTime, as far as the library uses it.  A date-time is   *)
(* [days, secs, nanos]: days since 1970-01-01 in the proleptic Gregorian   *)
(* calendar, the second of the day, and chrono's fractional nanoseconds    *)
(* (1_000_000_000 and more during a leap second).  None is the failure of  *)
(* an Option / Result.                                                     *)
(***************************************************************************)
None == [none |-> TRUE]

\* days since 1970-01-01 of the civil date y-m-d
DaysFromCivil(y, m, d) ==
  LET yy  == IF m <= 2 THEN y - 1 ELSE y
      era == yy \div 400
      yoe == yy - era * 400
      mp  == IF m > 2 THEN m - 3 ELSE m + 9
      doy == (153 * mp + 2) \div 5 + d - 1
      doe == yoe * 365 + yoe \div 4 - yoe \div 100 + doy
  IN  era * 146097 + doe - 719468

\* the civil date [y, m, d] of a count of days since 1970-01-01
CivilFromDays(days) ==
  LET z   == days + 719468
      era == z \div 146097
      doe == z - era * 146097
      yoe == (doe - doe \div 1460 + doe \div 36524 - doe \div 146096) \div 365
      doy == doe - (365 * yoe + yoe \div 4 - yoe \div 100)
      mp  == (5 * doy + 2) \div 153
      d   == doy - (153 * mp + 2) \div 5 + 1
      m   == IF mp < 10 THEN mp + 3 ELSE mp - 9
      y   == yoe + era * 400
  IN  [y |-> IF m <= 2 THEN y + 1 ELSE y, m |-> m, d |-> d]

IsLeapYear(y) == y % 4 = 0 /\ (y % 100 # 0 \/ y % 400 = 0)

DaysInMonth(y, m) ==
  IF m = 2 THEN (IF IsLeapYear(y) THEN 29 ELSE 28)
  ELSE IF m \in {4, 6, 9, 11} THEN 30 ELSE 31

\* chrono 0.4: NaiveDate::MIN is the first day of year -262144 and
\* NaiveDate::MAX the last day of year 262143 (i32::MIN >> 13, i32::MAX >> 13)
ChronoMinYear == 0 - 2^18
ChronoMaxYear == 2^18 - 1

ChronoMinDays == DaysFromCivil(ChronoMinYear, 1, 1)
ChronoMaxDays == DaysFromCivil(ChronoMaxYear, 12, 31)

\* NaiveDate::from_ymd_opt(y, m, d) joined with a time of day
NaiveFromYmdHms(y, m, d, h, mi, sec, nanos) ==
  IF /\ y >= ChronoMinYear /\ y <= ChronoMaxYear
     /\ m >= 1 /\ m <= 12 /\ d >= 1 /\ d <= DaysInMonth(y, m)
     /\ h >= 0 /\ h <= 23 /\ mi >= 0 /\ mi <= 59 /\ sec >= 0 /\ sec <= 59
  THEN [days |-> DaysFromCivil(y, m, d), secs |-> h * 3600 + mi * 60 + sec,
        nanos |-> nanos]
  ELSE None

BDivMod86400Step(a, b) == <<b[1], b[2] * 675 + a[2]>>

BDivMod86400By675(a) == BDivMod86400Step(a, BDivSmall(a[1], 128))

\* <<floor(mag / 86400), mag mod 86400>> of a natural, 86400 = 675 * 128
BDivMod86400(mag) == BDivMod86400By675(BDivSmall(mag, 675))

\* a natural below 2^30 as an integer
BToNat(a) ==
  IF a = <<>> THEN 0
  ELSE IF Len(a) = 1 THEN a[1]
  ELSE a[1] + Limb * a[2]

\* a day count and second of day, None outside NaiveDate::MIN ..= NaiveDate::MAX
NaiveFromDays(days, secs, nsecs) ==
  IF days < ChronoMinDays \/ days > ChronoMaxDays THEN None
  ELSE [days |-> days, secs |-> secs, nanos |-> nsecs]

\* q days and r seconds of magnitude: floor division for a negative count
EuclidDays(neg, q, r, nsecs) ==
  IF ~neg THEN NaiveFromDays(q, r, nsecs)
  ELSE IF r = 0 THEN NaiveFromDays(0 - q, 0, nsecs)
  ELSE NaiveFromDays(0 - q - 1, 86400 - r, nsecs)

FromTimestampQr(neg, qr, nsecs) ==
  IF Len(qr[1]) > 2 THEN None
  ELSE EuclidDays(neg, BToNat(qr[1]), qr[2], nsecs)

\* NaiveDateTime::from_timestamp_opt(secs, nsecs): secs.div_euclid(86400) days
\* and secs.rem_euclid(86400) seconds; None when the day count does not fit
\* an i32 or the date lies outside NaiveDate::MIN ..= NaiveDate::MAX
from_timestamp_opt(ts, nsecs) ==
  FromTimestampQr(ts.neg, BDivMod86400(ts.mag), nsecs)

TimestampOfDays(neg, p, secs) ==
  IF ~neg THEN [neg |-> FALSE, mag |-> BAdd(p, BFromNat(secs))]
  ELSE [neg |-> TRUE, mag |-> BSub(p, BFromNat(secs))]

\* NaiveDateTime::timestamp(): whole seconds since the epoch (nanos dropped)
timestamp(dt) ==
  TimestampOfDays(dt.days < 0,
                  BMul(BFromNat(IF dt.days < 0 THEN 0 - dt.days ELSE dt.days),
                       BFromNat(86400)),
                  dt.secs)

(***************************************************************************)
(* Strings are sequences of one-character strings; the str methods the     *)
(* parser calls.                                                           *)
(***************************************************************************)
DigitChars == <<"0", "1", "2", "3", "4", "5", "6", "7", "8", "9">>

IsDigit(c) == \E i \in 1..10 : DigitChars[i] = c

DigitVal(c) == (CHOOSE i \in 1..10 : DigitChars[i] = c) - 1

\* the index of the first c in s, 0 when there is none
IndexOf(s, c) ==
  IF \E i \in 1..Len(s) : s[i] = c
    THEN CHOOSE i \in 1..Len(s) : s[i] = c /\ \A j \in 1..(i - 1) : s[j] # c
    ELSE 0

\* str::contains(c)
Contains(s, c) == IndexOf(s, c) # 0

\* str::split(c), collected
RECURSIVE SplitOn(_, _)
SplitOn(s, c) ==
  LET i == IndexOf(s, c)
  IN  IF i = 0 THEN <<s>>
      ELSE <<SubSeq(s, 1, i - 1)>> \o SplitOn(SubSeq(s, i + 1, Len(s)), c)

\* str::replace(a, b) for one-character a and b
ReplaceChar(s, a, b) == [i \in 1..Len(s) |-> IF s[i] = a THEN b ELSE s[i]]

RECURSIVE TrimStart(_)
TrimStart(s) ==
  IF s # <<>> /\ Head(s) = " " THEN TrimStart(Tail(s)) ELSE s

RECURSIVE TrimEnd(_)
TrimEnd(s) ==
  IF s # <<>> /\ s[Len(s)] = " " THEN TrimEnd(SubSeq(s, 1, Len(s) - 1)) ELSE s

\* str::trim()
Trim(s) == TrimEnd(TrimStart(s))

(***************************************************************************)
(* NaiveDateTime::parse_from_str(s, "%Y-%m-%d %H:%M:%S") and               *)
(* NaiveDateTime::format of chrono 0.4.                                    *)
(***************************************************************************)
ParseFail == [ok |-> FALSE, s |-> <<>>, vals |-> <<>>]

\* the number of leading ASCII digits of s, at most max
RECURSIVE LeadingDigits(_, _)
LeadingDigits(s, max) ==
  IF max = 0 \/ s = <<>> \/ ~IsDigit(Head(s)) THEN 0
  ELSE 1 + LeadingDigits(Tail(s), max - 1)

\* the value of a digit string; a value past every calendar field stays there
RECURSIVE NumVal(_, _)
NumVal(s, acc) ==
  IF s = <<>> THEN acc
  ELSE NumVal(Tail(s), IF acc >= 10^7 THEN acc ELSE acc * 10 + DigitVal(Head(s)))

PNumTake(st, s, n) ==
  IF n = 0 THEN ParseFail
  ELSE [ok |-> TRUE, s |-> SubSeq(s, n + 1, Len(s)),
        vals |-> Append(st.vals, NumVal(SubSeq(s, 1, n), 0))]

PNumAt(st, s, max) == PNumTake(st, s, LeadingDigits(s, max))

\* scan::number(s, 1, max) after the numeric item's trim_start
PNum(st, max) == IF ~st.ok THEN st ELSE PNumAt(st, TrimStart(st.s), max)

PNegate(r) == IF ~r.ok THEN r ELSE [r EXCEPT !.vals = <<0 - r.vals[1]>>]

\* %Y: a signed year takes every digit that follows the sign, an unsigned
\* one at most 4
PYearAt(st, s) ==
  IF s # <<>> /\ Head(s) = "-"
    THEN PNegate(PNumAt(st, Tail(s), Len(s)))
  ELSE IF s # <<>> /\ Head(s) = "+"
    THEN PNumAt(st, Tail(s), Len(s))
  ELSE PNumAt(st, s, 4)

PYear(st) == IF ~st.ok THEN st ELSE PYearAt(st, TrimStart(st.s))

\* a literal character of the format
PLit(st, c) ==
  IF st.ok /\ st.s # <<>> /\ Head(st.s) = c THEN [st EXCEPT !.s = Tail(st.s)]
  ELSE ParseFail

\* whitespace in the format takes any run of whitespace
PSpace(st) == IF st.ok THEN [st EXCEPT !.s = TrimStart(st.s)] ELSE st

\* Parsed::to_naive_datetime_with_offset: second 60 is a leap second
ResolveParsed(v) ==
  IF v[6] = 60 THEN NaiveFromYmdHms(v[1], v[2], v[3], v[4], v[5], 59, 10^9)
  ELSE NaiveFromYmdHms(v[1], v[2], v[3], v[4], v[5], v[6], 0)

ParseEnd(st) ==
  IF ~st.ok \/ st.s # <<>> THEN None ELSE ResolveParsed(st.vals)

ParseTime(st) ==
  ParseEnd(PNum(PLit(PNum(PLit(PNum(PSpace(st), 2), ":"), 2), ":"), 2))

ParseDate(st) == PNum(PLit(PNum(PLit(PYear(st), "-"), 2), "-"), 2)

parse_from_str(s) == ParseTime(ParseDate([ok |-> TRUE, s |-> s, vals |-> <<>>]))

Pad2(n) == <<DigitChars[(n \div 10) + 1], DigitChars[(n % 10) + 1]>>

\* the decimal digits of a natural, at least w of them
RECURSIVE PadNat(_, _)
PadNat(n, w) ==
  IF n < 10 /\ w <= 1 THEN <<DigitChars[n + 1]>>
  ELSE PadNat(n \div 10, w - 1) \o <<DigitChars[(n % 10) + 1]>>

\* %Y: four digits for 0..=9999, otherwise a sign and at least four digits
FormatYear(y) ==
  IF y >= 0 /\ y <= 9999 THEN PadNat(y, 4)
  ELSE IF y < 0 THEN <<"-">> \o PadNat(0 - y, 4)
  ELSE <<"+">> \o PadNat(y, 4)

\* format("%Y-%m-%d" sep "%H:%M:%S"), sep being " " or "T"
FormatCivil(c, secs, sec, sep) ==
  FormatYear(c.y) \o <<"-">> \o Pad2(c.m) \o <<"-">> \o Pad2(c.d) \o <<sep>>
  \o Pad2(secs \div 3600) \o <<":">> \o Pad2((secs \div 60) % 60)
  \o <<":">> \o Pad2(sec)

FormatDateTime(dt, sep) ==
  FormatCivil(CivilFromDays(dt.days), dt.secs,
              (dt.secs % 60) + (IF dt.nanos >= 10^9 THEN 1 ELSE 0), sep)

\* format("%w"): the day of the week, Sunday = 0
FormatWeekday(dt) == (dt.days + 4) % 7

(***************************************************************************)
(* src/src/lib.rs: the date-time conversions, the weekday index and the    *)
(* fuzzy parser                                                            *)
(***************************************************************************)
\* Ok(dt) is dt, Err("Julian Day out of range") is None
julian_day_to_datetime(jd) ==
  from_timestamp_opt(julian_day_to_unixtime(jd), 0)

to_jd(dt) == unixtime_to_julian_day(timestamp(dt))

from_jd(jd) == julian_day_to_datetime(jd)

\* a faulty variant: the last "% 7" of line 195 left out
julian_day_to_weekday_index_nomod(jd, offset_secs) ==
  LET ref_jd          == F64Add(jd, F64Div(I64AsF64(IntOf(offset_secs)), SecsPerDayF64))
      days_since_1970 == F64Sub(ref_jd, JULIAN_DAY_UNIX_EPOCH_DAYS)
      ds              == BDivSmall(F64AsU64(days_since_1970).mag, 7)[2]
  IN  ds + JULIAN_DAY_UNIX_EPOCH_WEEKDAY

julian_day_to_weekday_index(jd, offset_secs) ==
  LET ref_jd          == F64Add(jd, F64Div(I64AsF64(IntOf(offset_secs)), SecsPerDayF64))
      days_since_1970 == F64Sub(ref_jd, JULIAN_DAY_UNIX_EPOCH_DAYS)
      ds              == BDivSmall(F64AsU64(days_since_1970).mag, 7)[2]
      days_since_index == IF ds < 7 THEN ds ELSE 0
  IN  (days_since_index + JULIAN_DAY_UNIX_EPOCH_WEEKDAY) % 7

weekday_index(dt, offset_secs) ==
  julian_day_to_weekday_index(to_jd(dt), offset_secs)

Join3(p, c) == p[1] \o <<c>> \o p[2] \o <<c>> \o p[3]

\* what a failed unwrap() or an index past the end of a Vec does
Panic == [panic |-> TRUE]

Pad01 == <<"0", "1">>

Pad00 == <<"0", "0">>

\* lines 236-237: the assembled string is parsed; an index past the end panics
FuzzyAssemble(date_parts, time_parts) ==
  IF Len(date_parts) < 3 \/ Len(time_parts) < 3 THEN Panic
  ELSE parse_from_str(Join3(date_parts, "-") \o <<" ">> \o Join3(time_parts, ":"))

\* lines 229-235: num_time_parts is taken before the pushes
FuzzyPadTime(time_parts, num_time_parts) ==
  (IF num_time_parts < 3 THEN Append(time_parts, Pad00) ELSE time_parts)
  \o (IF num_time_parts < 2 THEN <<Pad00>> ELSE <<>>)

\* line 228
FuzzyTimeParts(time_part) ==
  IF Len(time_part) > 1 THEN SplitOn(time_part, ":") ELSE <<Pad00, Pad00, Pad00>>

\* lines 220-225
FuzzyPadDate(date_parts) ==
  date_parts
  \o (IF Len(date_parts) < 2 THEN <<Pad01>> ELSE <<>>)
  \o (IF Len(date_parts) < 3 THEN <<Pad01>> ELSE <<>>)

\* line 219
FuzzyDateParts(date_part) ==
  IF Len(date_part) > 1 THEN SplitOn(date_part, "-")
  ELSE <<<<"2", "0", "0", "0">>, Pad01, Pad01>>

FuzzyTimed(date_parts, time_parts0) ==
  FuzzyAssemble(FuzzyPadDate(date_parts), FuzzyPadTime(time_parts0, Len(time_parts0)))

\* lines 217-227: the second dt_parts.next().unwrap() panics on None
FuzzySplit(clean_dt, dt_parts, has_space) ==
  IF has_space /\ Len(dt_parts) < 2 THEN Panic
  ELSE FuzzyTimed(FuzzyDateParts(IF has_space THEN dt_parts[1] ELSE clean_dt),
                  FuzzyTimeParts(IF has_space THEN dt_parts[2] ELSE <<>>))

FuzzyClean(clean_dt) ==
  FuzzySplit(clean_dt, SplitOn(clean_dt, " "), Contains(clean_dt, " "))

\* line 215
FuzzyBase(dt) == IF Contains(dt, ".") THEN SplitOn(dt, ".")[1] ELSE dt

iso_fuzzy_string_to_datetime(dt) ==
  FuzzyClean(Trim(ReplaceChar(FuzzyBase(dt), "T", " ")))

from_fuzzy_iso_string(dt_str) == iso_fuzzy_string_to_datetime(dt_str)

\* Ok(jd) is jd, Err("invalid ISO date-compatible format") is None
DatetimeToJd(dt) ==
  IF dt = Panic THEN Panic
  ELSE IF dt # None THEN unixtime_to_julian_day(timestamp(dt))
  ELSE None

\* Ok(jd) is jd, Err("invalid ISO date-compatible format") is None
datetime_to_julian_day(dt_str) ==
  DatetimeToJd(iso_fuzzy_string_to_datetime(dt_str))

(***************************************************************************)
(* Operations the tests call that src/src/lib.rs does not define; they are *)
(* taken from the specification (sections 4.1 and 6).                      *)
(***************************************************************************)
\* -1930999.5 = -3861999 / 2
JULIAN_DAY_MIN_SUPPORTED == F64Ratio(TRUE, BFromNat(3861999), 1, 1)

\* 5373484.499999 = 5373484499999 / (15625 * 2^6)
JULIAN_DAY_MAX_SUPPORTED ==
  F64Ratio(FALSE, BAdd(BMul(BFromNat(5373484), BFromNat(10^6)), BFromNat(499999)),
           15625, 6)

SundayAs7(i) == IF i = 0 THEN 7 ELSE i

\* weekday_index, with Sunday (0) returned as 7
weekday_number(dt, offset_secs) == SundayAs7(weekday_index(dt, offset_secs))

\* ((jd - JULIAN_DAY_UNIX_EPOCH_DAYS) * 86_400_000f64) as i64
julian_day_to_unix_millis(jd) ==
  F64AsI64(F64Mul(F64Sub(jd, JULIAN_DAY_UNIX_EPOCH_DAYS), I64AsF64(IntOf(86400000))))

FromMillisQr(neg, qr) ==
  IF neg /\ qr[2] # 0
    THEN from_timestamp_opt([neg |-> TRUE, mag |-> BAdd(qr[1], <<1>>)],
                            (1000 - qr[2]) * 10^6)
    ELSE from_timestamp_opt([neg |-> neg /\ qr[1] # <<>>, mag |-> qr[1]],
                            qr[2] * 10^6)

\* NaiveDateTime::from_timestamp_millis: div_euclid / rem_euclid by 1000
from_timestamp_millis(ms) == FromMillisQr(ms.neg, BDivSmall(ms.mag, 1000))

(***************************************************************************)
(* The inputs.  Every value is one the program can be handed: an f64, an   *)
(* i64, a NaiveDateTime chrono can hold, a string.                         *)
(***************************************************************************)
\* half-width of the grids of Julian Days, in grid steps
MaxGrid == 10
\* a grid step is 2^-GridBits days (84.375 s for 10)
GridBits == 10
\* half-width of the window of timestamps around the epoch, in seconds
MaxTs == 12
\* half-width of the window of days around 1970-01-01 of the date-times
MaxDay == 2
\* half-width of the window of days of the weekday inputs
MaxWdDay == 8

\* the f64 (twice * 2^(GridBits-1) + k) / 2^GridBits: twice/2 days plus k steps
GridJdBase(neg, base, kk) ==
  F64Ratio(neg,
           IF kk >= 0 THEN BAdd(base, BFromNat(kk)) ELSE BSub(base, BFromNat(0 - kk)),
           1, GridBits)

GridJd(neg, twice, k) ==
  GridJdBase(neg, BShl(BFromNat(twice), GridBits - 1), IF neg THEN 0 - k ELSE k)

\* 2499827.2939383729278 of test_milliseconds, as rustc rounds it
JdTestMillis == [neg |-> FALSE, m |-> <<17865, 19263, 18918, 152>>, e |-> -31]

\* 2459827.25 = 9839309 / 4 (2022-09-04T18:00:00)
JdTestBasic == F64Ratio(FALSE, BFromNat(9839309), 1, 2)

JdInputs ==
  {GridJd(FALSE, 4881175, k) : k \in (0 - MaxGrid)..MaxGrid}
  \cup {GridJd(TRUE, 3861999, k) : k \in (0 - MaxGrid)..MaxGrid}
  \cup {GridJd(FALSE, 10746969, k) : k \in (0 - MaxGrid)..MaxGrid}
  \cup {F64Zero, JULIAN_DAY_MIN_SUPPORTED, JULIAN_DAY_MAX_SUPPORTED,
        JULIAN_DAY_UNIX_EPOCH_DAYS, JdTestMillis, JdTestBasic,
        I64AsF64(IntOf(10^9)), I64AsF64(IntOf(0 - 10^9))}

TsInputs == {IntOf(t) : t \in (0 - MaxTs)..MaxTs} \cup {IntOf(1662314400)}

DayMinSupported == DaysFromCivil(0 - 9999, 1, 1)
DayMaxSupported == DaysFromCivil(9999, 12, 31)

DtDays ==
  ((0 - MaxDay)..MaxDay)
  \cup {DayMinSupported, DayMaxSupported, DaysFromCivil(0 - 4713, 11, 24),
        DaysFromCivil(0 - 1, 12, 31), DaysFromCivil(0, 1, 1),
        DaysFromCivil(1876, 9, 25), DaysFromCivil(2022, 9, 4)}

DtSecs == {0, 1, 12 * 3600, 18 * 3600, 86399}

DtNanos == {0, 5 * 10^8}

DtInputs ==
  {[days |-> d, secs |-> sc, nanos |-> n] : d \in DtDays, sc \in DtSecs, n \in DtNanos}

Offsets == {0, 36000, 0 - 18000, 3600}

WdDays ==
  ((0 - MaxWdDay)..MaxWdDay)
  \cup {DayMinSupported, DaysFromCivil(1876, 9, 25), DaysFromCivil(2022, 9, 4),
        DaysFromCivil(6761, 3, 8), DayMaxSupported - 1}

WdSecs == {0, 18 * 3600, 23 * 3600}

WdInputs ==
  {[dt |-> [days |-> d, secs |-> sc, nanos |-> 0], off |-> o] :
     d \in WdDays, sc \in WdSecs, o \in Offsets}

\* the (possibly partial) ISO-8601-like inputs: a date prefix of 1 to 3
\* components, then nothing or a separator and a time prefix of 1 to 3
\* components, each time component [v, w] written with w digits
PartialYears == {2023, 999}
PartialMonths == {2, 11}
PartialDays == {9, 28}
PartialHours == {[v |-> 8, w |-> 1], [v |-> 8, w |-> 2], [v |-> 18, w |-> 2]}
PartialMinutes == {[v |-> 5, w |-> 1], [v |-> 53, w |-> 2]}
PartialSeconds == {[v |-> 7, w |-> 1], [v |-> 26, w |-> 2]}

PartialDates ==
  {<<y>> : y \in PartialYears}
  \cup {<<y, m>> : y \in PartialYears, m \in PartialMonths}
  \cup {<<y, m, d>> : y \in PartialYears, m \in PartialMonths, d \in PartialDays}

PartialTimes ==
  {<<h>> : h \in PartialHours}
  \cup {<<h, mi>> : h \in PartialHours, mi \in PartialMinutes}
  \cup {<<h, mi, sc>> : h \in PartialHours, mi \in PartialMinutes, sc \in PartialSeconds}

PartialInputs ==
  {[kind |-> "partial", date |-> d, sep |-> " ", time |-> <<>>] : d \in PartialDates}
  \cup {[kind |-> "partial", date |-> d, sep |-> sp, time |-> t] :
          d \in PartialDates, sp \in {" ", "T"}, t \in PartialTimes}

RenderDate(d) ==
  PadNat(d[1], 4)
  \o (IF Len(d) >= 2 THEN <<"-">> \o Pad2(d[2]) ELSE <<>>)
  \o (IF Len(d) >= 3 THEN <<"-">> \o Pad2(d[3]) ELSE <<>>)

RenderField(f) == IF f.w = 1 THEN <<DigitChars[f.v + 1]>> ELSE Pad2(f.v)

RenderTime(t) ==
  RenderField(t[1])
  \o (IF Len(t) >= 2 THEN <<":">> \o RenderField(t[2]) ELSE <<>>)
  \o (IF Len(t) >= 3 THEN <<":">> \o RenderField(t[3]) ELSE <<>>)

\* strings that are no date-time of the supported shapes
MalformedTexts ==
  {<<>>,
   <<"n", "o", "t", "-", "a", "-", "d", "a", "t", "e">>,
   <<"x">>,
   <<"a", "b">>,
   <<"h", "e", "l", "l", "o", " ", "w", "o", "r", "l", "d">>,
   <<"2", "0", "2", "3", "-", "1", "x">>,
   <<"2", "0", "2", "3", "-", "1", "1", "-", "1", "5", "-", "0", "7">>,
   <<"2", "0", "2", "3", "-", "1", "1", "-", "1", "5", " ", "1", "0", ":", "1", "1", ":", "1", "2", ":", "1", "3">>,
   <<"2", "0", "2", "3", "-", "1", "3", "-", "0", "1">>,
   <<"2", "0", "2", "3", "-", "0", "2", "-", "3", "0">>,
   <<"2", "0", "2", "3", "-", "1", "1", "-", "1", "5", " ", "2", "4", ":", "0", "0">>,
   <<"2", "0", "2", "3", "-", "1", "1", "-", "1", "5", " ", "1", "0", ":", "6", "1">>,
   <<"2", "0", "2", "3", "-", "1", "1", "-", "1", "5", " ", "a", "b">>,
   <<"2", "0", "2", "3", "-", "1", "1", "-", "1", "5", " ", ":">>,
   <<"-", "-">>}

MalformedInputs == {[kind |-> "malformed", text |-> t] : t \in MalformedTexts}

\* what may follow the seconds of a full date-time: fractional seconds, a
\* zone letter, both
Suffixes ==
  {<<".", "3", "8", "3">>, <<".", "3", "8", "3", "Z">>, <<"Z">>,
   <<".", "5">>, <<".", "0", "Z">>}

FullDates == {d \in PartialDates : Len(d) = 3}

FullTimes == {t \in PartialTimes : Len(t) = 3 /\ \A i \in 1..3 : t[i].w = 2}

\* a full date-time YYYY-MM-DD, separator, HH:MM:SS, followed by a suffix
SuffixedInputs ==
  {[kind |-> "suffixed", date |-> d, sep |-> sp, time |-> t, suffix |-> x] :
     d \in FullDates, sp \in {" ", "T"}, t \in FullTimes, x \in Suffixes}

\* the date-time text of an input, without any suffix
BaseTextOf(a) ==
  IF a.time = <<>> THEN RenderDate(a.date)
  ELSE RenderDate(a.date) \o <<a.sep>> \o RenderTime(a.time)

\* the string an input of kind "partial", "suffixed" or "malformed" stands for
TextOf(a) ==
  IF a.kind = "malformed" THEN a.text
  ELSE IF a.kind = "suffixed" THEN BaseTextOf(a) \o a.suffix
  ELSE BaseTextOf(a)

IsText(a) == a.kind \in {"partial", "suffixed", "malformed"}

VARIABLES op, arg, ret

vars == <<op, arg, ret>>

Init ==
  /\ op = "none"
  /\ ret = None
  /\ arg \in {[kind |-> "jd", jd |-> j] : j \in JdInputs}
       \cup {[kind |-> "ts", ts |-> t] : t \in TsInputs}
       \cup {[kind |-> "dt", dt |-> d] : d \in DtInputs}
       \cup {[kind |-> "wd", dt |-> w.dt, off |-> w.off] : w \in WdInputs}
       \cup {[kind |-> "jdoff", jd |-> to_jd(w.dt), off |-> w.off] : w \in WdInputs}
       \cup PartialInputs
       \cup SuffixedInputs
       \cup MalformedInputs

Call(kind, name, value) ==
  /\ op = "none"
  /\ arg.kind = kind
  /\ op' = name
  /\ ret' = value
  /\ UNCHANGED arg

UnixtimeToJulianDay ==
  /\ arg.kind = "ts"
  /\ Call("ts", "unixtime_to_julian_day", unixtime_to_julian_day(arg.ts))

JulianDayToUnixtime ==
  /\ arg.kind = "jd"
  /\ Call("jd", "julian_day_to_unixtime", julian_day_to_unixtime(arg.jd))

JulianDayToDatetime ==
  /\ arg.kind = "jd"
  /\ Call("jd", "julian_day_to_datetime", julian_day_to_datetime(arg.jd))

FromJd ==
  /\ arg.kind = "jd"
  /\ Call("jd", "from_jd", from_jd(arg.jd))

ToJd ==
  /\ arg.kind = "dt"
  /\ Call("dt", "to_jd", to_jd(arg.dt))

\* NaiveDateTime::from_jd(d.to_jd())
FromJdOfToJd ==
  /\ op = "to_jd"
  /\ op' = "to_jd.from_jd"
  /\ ret' = from_jd(ret)
  /\ UNCHANGED arg

WeekdayIndex ==
  /\ arg.kind = "wd"
  /\ Call("wd", "weekday_index", weekday_index(arg.dt, arg.off))

WeekdayNumber ==
  /\ arg.kind = "wd"
  /\ Call("wd", "weekday_number", weekday_number(arg.dt, arg.off))

JulianDayToWeekdayIndex ==
  /\ arg.kind = "jdoff"
  /\ Call("jdoff", "julian_day_to_weekday_index",
          julian_day_to_weekday_index(arg.jd, arg.off))

IsoFuzzyStringToDatetime ==
  /\ IsText(arg)
  /\ Call(arg.kind, "iso_fuzzy_string_to_datetime",
          iso_fuzzy_string_to_datetime(TextOf(arg)))

FromFuzzyIsoString ==
  /\ IsText(arg)
  /\ Call(arg.kind, "from_fuzzy_iso_string", from_fuzzy_iso_string(TextOf(arg)))

DatetimeToJulianDay ==
  /\ IsText(arg)
  /\ Call(arg.kind, "datetime_to_julian_day", datetime_to_julian_day(TextOf(arg)))

\* d.format("%Y-%m-%d %H:%M:%S").to_string()
Format ==
  /\ arg.kind = "dt"
  /\ Call("dt", "format", FormatDateTime(arg.dt, " "))

\* iso_fuzzy_string_to_datetime of the text Format gave
ParseFormatted ==
  /\ op = "format"
  /\ op' = "format.parse"
  /\ ret' = iso_fuzzy_string_to_datetime(ret)
  /\ UNCHANGED arg

\* the parsed date-time formatted again
Reformat ==
  /\ op = "format.parse"
  /\ ret \notin {None, Panic}
  /\ op' = "format.parse.format"
  /\ ret' = FormatDateTime(ret, " ")
  /\ UNCHANGED arg

Next ==
  \/ UnixtimeToJulianDay
  \/ JulianDayToUnixtime
  \/ JulianDayToDatetime
  \/ FromJd
  \/ ToJd
  \/ FromJdOfToJd
  \/ WeekdayIndex
  \/ WeekdayNumber
  \/ JulianDayToWeekdayIndex
  \/ IsoFuzzyStringToDatetime
  \/ FromFuzzyIsoString
  \/ DatetimeToJulianDay
  \/ Format
  \/ ParseFormatted
  \/ Reformat

Spec == Init /\ [][Next]_vars

(***************************************************************************)
(* The claims.  Each formula is a state predicate over the call the state  *)
(* records: op the function applied, arg its input, ret its result.        *)
(***************************************************************************)
\* a < b for f64 values: the sign of the difference, which rounding keeps
F64Lt(a, b) == F64Sub(a, b).neg

InSupportedRange(jd) ==
  ~F64Lt(jd, JULIAN_DAY_MIN_SUPPORTED) /\ ~F64Lt(JULIAN_DAY_MAX_SUPPORTED, jd)

\* C1: julian_day_to_datetime and from_jd return the range error for every
\* Julian Day strictly below JULIAN_DAY_MIN_SUPPORTED or strictly above
\* JULIAN_DAY_MAX_SUPPORTED, and a date-time for every one in between.
C1_RangeErrorOutsideSupported ==
  op \in {"julian_day_to_datetime", "from_jd"} =>
    IF InSupportedRange(arg.jd) THEN ret # None ELSE ret = None

\* b is the second after a
NextSecond(a, b) ==
  \/ a.days = b.days /\ b.secs = a.secs + 1
  \/ b.days = a.days + 1 /\ a.secs = 86399 /\ b.secs = 0

\* two date-times at most one millisecond apart
WithinOneMs(a, b) ==
  \/ a.days = b.days /\ a.secs = b.secs
     /\ a.nanos - b.nanos <= 10^6 /\ b.nanos - a.nanos <= 10^6
  \/ NextSecond(a, b) /\ b.nanos + (10^9 - a.nanos) <= 10^6
  \/ NextSecond(b, a) /\ a.nanos + (10^9 - b.nanos) <= 10^6

\* C2: for every date-time d of the supported range, from_jd(d.to_jd())
\* succeeds and differs from d by at most one millisecond.
C2_RoundTripWithinOneMs ==
  op = "to_jd.from_jd" => ret # None /\ WithinOneMs(ret, arg.dt)

\* the day of the week (Sunday = 0) of a date-time shifted by off seconds
ShiftedWeekday(dt, off) == (dt.days + ((dt.secs + off) \div 86400) + 4) % 7

\* C3: weekday_index(offset) is in 0..6 and is the Sunday = 0 day of the week
\* of the date-time shifted by the offset, before and after 1970; with offset
\* 0 it is the formatted weekday (%w), and the Unix epoch has index 4.
C3_WeekdayIndexIsDayOfWeek ==
  op = "weekday_index" =>
    /\ ret \in 0..6
    /\ ret = ShiftedWeekday(arg.dt, arg.off)
    /\ arg.off = 0 => ret = FormatWeekday(arg.dt)
    /\ (arg.off = 0 /\ arg.dt.days = 0) => ret = 4

\* C4: the documented reference Julian Days convert to exactly their
\* documented date-times, and Unix time 0 is Julian Day 2440587.5.
C4_ReferenceJulianDays ==
  /\ (op = "julian_day_to_datetime" /\ arg.jd = JULIAN_DAY_MIN_SUPPORTED) =>
       /\ ret = NaiveFromYmdHms(0 - 9999, 1, 1, 0, 0, 0, 0)
       /\ FormatDateTime(ret, "T") = <<"-", "9", "9", "9", "9", "-", "0", "1", "-", "0", "1", "T", "0", "0", ":", "0", "0", ":", "0", "0">>
  /\ (op = "julian_day_to_datetime" /\ arg.jd = JULIAN_DAY_MAX_SUPPORTED) =>
       /\ ret = NaiveFromYmdHms(9999, 12, 31, 23, 59, 59, 0)
       /\ FormatDateTime(ret, "T") = <<"9", "9", "9", "9", "-", "1", "2", "-", "3", "1", "T", "2", "3", ":", "5", "9", ":", "5", "9">>
  /\ (op = "julian_day_to_datetime" /\ arg.jd = F64Zero) =>
       /\ ret = NaiveFromYmdHms(0 - 4713, 11, 24, 12, 0, 0, 0)
       /\ FormatDateTime(ret, "T") = <<"-", "4", "7", "1", "3", "-", "1", "1", "-", "2", "4", "T", "1", "2", ":", "0", "0", ":", "0", "0">>
  /\ (op = "julian_day_to_datetime" /\ arg.jd = F64Ratio(FALSE, BFromNat(4881175), 1, 1)) =>
       /\ ret = NaiveFromYmdHms(1970, 1, 1, 0, 0, 0, 0)
       /\ FormatDateTime(ret, "T") = <<"1", "9", "7", "0", "-", "0", "1", "-", "0", "1", "T", "0", "0", ":", "0", "0", ":", "0", "0">>
  /\ (op = "unixtime_to_julian_day" /\ arg.ts = IntZero) =>
       ret = F64Ratio(FALSE, BFromNat(4881175), 1, 1)

C4_Witness ==
  /\ op = "julian_day_to_datetime"
  /\ arg.jd = JULIAN_DAY_MAX_SUPPORTED
  /\ ret # None

\* the date-time an input of kind "partial" writes, month and day 1 and
\* minute and second 0 where it writes none
PartialField(t, i) == IF Len(t) >= i THEN t[i].v ELSE 0

PartialDatePart(d, i) == IF Len(d) >= i THEN d[i] ELSE 1

ExpectedPartial(a) ==
  NaiveFromYmdHms(a.date[1], PartialDatePart(a.date, 2), PartialDatePart(a.date, 3),
                  PartialField(a.time, 1), PartialField(a.time, 2),
                  PartialField(a.time, 3), 0)

\* C5: for a date prefix optionally followed by a separator and a time
\* prefix of one- or two-digit components, the parser returns the date-time
\* of the components written, with defaults only for the missing ones.
C5_FuzzyKeepsGivenComponents ==
  (arg.kind = "partial"
     /\ op \in {"iso_fuzzy_string_to_datetime", "from_fuzzy_iso_string"}) =>
    ret = ExpectedPartial(arg)

\* C6: a malformed input gives the parse error from iso_fuzzy_string_to_datetime
\* and Err from datetime_to_julian_day, never a default-filled date-time, and
\* no input string makes either function panic.
C6_MalformedIsParseError ==
  op \in {"iso_fuzzy_string_to_datetime", "from_fuzzy_iso_string",
          "datetime_to_julian_day"} =>
    /\ ret # Panic
    /\ arg.kind = "malformed" => ret = None

C8_MillisecondResolution ==
  (op \in {"julian_day_to_datetime", "from_jd"} /\ InSupportedRange(arg.jd)) =>
    ret = from_timestamp_millis(julian_day_to_unix_millis(arg.jd))

\* C9: for every date-time of the supported range, parsing its canonical
\* text "%Y-%m-%d %H:%M:%S" succeeds, and formatting the result again gives
\* the text back.
C9_CanonicalTextIdempotent ==
  /\ op = "format.parse" => ret \notin {None, Panic}
  /\ op = "format.parse.format" => ret = FormatDateTime(arg.dt, " ")

\* the exact value of (jd - 2440587.5) * 86400 cut toward zero: d is the sign
\* and magnitude of (jd - 2440587.5) in units of 2^emin days
TruncScaled(d, emin) ==
  [neg  |-> d.neg /\ BShr(BMul(d.mag, BFromNat(86400)), 0 - emin) # <<>>,
   mag  |-> BShr(BMul(d.mag, BFromNat(86400)), 0 - emin)]

SignedSub(xneg, x, y) ==
  IF xneg THEN [neg |-> TRUE, mag |-> BAdd(x, y)]
  ELSE IF BCmp(x, y) >= 0 THEN [neg |-> FALSE, mag |-> BSub(x, y)]
  ELSE [neg |-> TRUE, mag |-> BSub(y, x)]

ExactSecsAt(jd, emin) ==
  TruncScaled(SignedSub(jd.neg, BShl(jd.m, jd.e - emin),
                        BShl(BFromNat(4881175), 0 - 1 - emin)), emin)

ExactSecs(jd) == ExactSecsAt(jd, Min(jd.e, 0 - 1))

\* k grid steps of 86400 / 2^GridBits = 675 / 2^(GridBits - 7) seconds, cut
\* toward zero
GridSecs(k) ==
  IF k >= 0 THEN (k * 675) \div 2^(GridBits - 7)
  ELSE 0 - (((0 - k) * 675) \div 2^(GridBits - 7))

C11_FractionAndZoneIgnored ==
  (arg.kind = "suffixed"
     /\ op \in {"iso_fuzzy_string_to_datetime", "from_fuzzy_iso_string"}) =>
    /\ ret = iso_fuzzy_string_to_datetime(BaseTextOf(arg))
    /\ ret = ExpectedPartial(arg)
=============================================================================
